---- MODULE Spec2Model ----
(***************************************************************************)
(* Model of getpak/raster.py: GRS.metadata (filename parser),              *)
(* Raster.reproj (band-by-band reprojection) and Raster.array2tiff.        *)
(* Strings are sequences of one-character strings so that basename, split  *)
(* and strptime are computed character by character, as the code does.     *)
(***************************************************************************)
EXTENDS Integers, Sequences, FiniteSets, TLC

VARIABLES
    \* ---- GRS.metadata ----
    in_dir,          \* directory part the input path was built from
    in_tokens,       \* tokens the input basename was built from
    grs_file_entry,  \* the argument of GRS.metadata
    mpc,             \* "call" | "returned" | "raised"
    metadata,        \* {} or {the returned record}
    merr,            \* "none" | "format" | "date"
    \* ---- Raster.reproj ----
    in_raster,       \* the source file: [exists, meta]
    target_crs,      \* argument target_crs
    rpc,             \* position inside reproj
    src,             \* source handle: "never" | "open" | "closed"
    src_meta,        \* src.meta of the opened handle
    dst,             \* destination handle: "never" | "open" | "closed"
    dst_meta,        \* {} or {metadata the destination was created with}
    calc,            \* {} or {[transform, width, height]} from calculate_default_transform
    kwargs,          \* {} or {the kwargs dict}
    i,               \* loop variable of the band loop
    band_log,        \* sequence of <<source band, destination band>> reprojected
    failed_band,     \* 0, or the band whose reproject call failed
    exc,             \* exception in flight: "none" | "open_src" | "transform" | "open_dst" | "reproject"
    close_log,       \* order in which handles were closed
    printed,         \* TRUE once 'Done: <out_raster>' was printed
    \* ---- Raster.array2tiff ----
    a_shape,         \* ndarray_data.shape
    a_nodata,        \* argument no_data
    apc,             \* position inside array2tiff
    outdata,         \* dataset handle: "none" | "open" | "released"
    a_file,          \* what has been put into the output dataset
    aerr             \* "none" or the step that failed

mvars == <<in_dir, in_tokens, grs_file_entry, mpc, metadata, merr>>
rvars == <<in_raster, target_crs, rpc, src, src_meta, dst, dst_meta, calc, kwargs,
           i, band_log, failed_band, exc, close_log, printed>>
avars == <<a_shape, a_nodata, apc, outdata, a_file, aerr>>
vars == <<mvars, rvars, avars>>

(***************************************************************************)
(* Bounds                                                                  *)
(***************************************************************************)
MaxTokens == 10
MaxBands == 3
MaxDim == 2

(***************************************************************************)
(* Characters and integer conversion                                       *)
(***************************************************************************)
Digits == {"0", "1", "2", "3", "4", "5", "6", "7", "8", "9"}
Digits19 == Digits \ {"0"}

DigitVal(c) ==
    CASE c = "0" -> 0 [] c = "1" -> 1 [] c = "2" -> 2 [] c = "3" -> 3
      [] c = "4" -> 4 [] c = "5" -> 5 [] c = "6" -> 6 [] c = "7" -> 7
      [] c = "8" -> 8 [] c = "9" -> 9 [] OTHER -> 0

DigitChar(n) ==
    CASE n = 0 -> "0" [] n = 1 -> "1" [] n = 2 -> "2" [] n = 3 -> "3"
      [] n = 4 -> "4" [] n = 5 -> "5" [] n = 6 -> "6" [] n = 7 -> "7"
      [] n = 8 -> "8" [] OTHER -> "9"

\* int(): leading blanks are skipped, the rest is read as decimal digits
RECURSIVE ToInt(_)
ToInt(s) ==
    IF s = <<>> THEN 0
    ELSE IF s[Len(s)] = " " THEN 0
    ELSE 10 * ToInt(SubSeq(s, 1, Len(s) - 1)) + DigitVal(s[Len(s)])

RECURSIVE IntStr(_)
IntStr(n) ==
    IF n < 10 THEN <<DigitChar(n)>>
    ELSE IntStr(n \div 10) \o <<DigitChar(n % 10)>>

\* width of the format specification '02d'
PadWidthNarrow == 2 - 1
PadWidth == 2

RECURSIVE ZeroPad(_, _)
ZeroPad(t, w) == IF Len(t) < w THEN ZeroPad(<<"0">> \o t, w) ELSE t

\* f"{n:02d}"
Fmt02d(n) == ZeroPad(IntStr(n), PadWidth)

(***************************************************************************)
(* os.path.basename and str.split('_')                                     *)
(***************************************************************************)
basenameWhole(p) == p
basename(p) ==
    LET slashes == {k \in 1..Len(p) : p[k] = "/"}
        last == IF slashes = {} THEN 0
                ELSE CHOOSE k \in slashes : \A j \in slashes : j <= k
    IN SubSeq(p, last + 1, Len(p))

RECURSIVE split(_)
split(s) ==
    LET seps == {k \in 1..Len(s) : s[k] = "_"}
    IN IF seps = {} THEN <<s>>
       ELSE LET k == CHOOSE x \in seps : \A y \in seps : x <= y
            IN <<SubSeq(s, 1, k - 1)>> \o split(SubSeq(s, k + 1, Len(s)))

(***************************************************************************)
(* datetime.strptime(date_n_time, '%Y%m%dT%H%M%S')                         *)
(* The format compiles to the regular expression                           *)
(*   (\d\d\d\d)(1[0-2]|0[1-9]|[1-9])(3[0-1]|[1-2]\d|0[1-9]|[1-9]| [1-9])   *)
(*   T(2[0-3]|[0-1]\d|\d)([0-5]\d|\d)(6[0-1]|[0-5]\d|\d)   (ignoring case) *)
(* matched with backtracking from the start of the string; text left after *)
(* the match is an error, and so is a field the datetime type rejects.     *)
(***************************************************************************)
At(s, p) == IF p >= 1 /\ p <= Len(s) THEN s[p] ELSE ""

\* lengths, in the order the regex tries them, of the alternatives of field f
\* that match s at position p
Alts(f, s, p) ==
    LET a == At(s, p)
        b == At(s, p + 1)
        one(ok) == IF ok THEN <<1>> ELSE <<>>
        two(ok) == IF ok THEN <<2>> ELSE <<>>
    IN CASE f = 1 -> IF \A k \in 0..3 : At(s, p + k) \in Digits THEN <<4>> ELSE <<>>
         [] f = 2 -> two((a = "1" /\ b \in {"0", "1", "2"}) \/ (a = "0" /\ b \in Digits19))
                     \o one(a \in Digits19)
         [] f = 3 -> two((a = "3" /\ b \in {"0", "1"}) \/ (a \in {"1", "2"} /\ b \in Digits)
                         \/ (a = "0" /\ b \in Digits19))
                     \o one(a \in Digits19)
                     \o two(a = " " /\ b \in Digits19)
         [] f = 4 -> one(a \in {"T", "t"})
         [] f = 5 -> two((a = "2" /\ b \in {"0", "1", "2", "3"}) \/ (a \in {"0", "1"} /\ b \in Digits))
                     \o one(a \in Digits)
         [] f = 6 -> two(a \in {"0", "1", "2", "3", "4", "5"} /\ b \in Digits)
                     \o one(a \in Digits)
         [] OTHER -> two((a = "6" /\ b \in {"0", "1"})
                         \/ (a \in {"0", "1", "2", "3", "4", "5"} /\ b \in Digits))
                     \o one(a \in Digits)

NoMatch == <<-1>>
NumFields == 7

\* lengths of fields k..7 of the first match found by backtracking, or NoMatch
RECURSIVE MatchFrom(_, _, _)
RECURSIVE TryAlts(_, _, _, _)
MatchFrom(s, p, k) ==
    IF k > NumFields THEN <<>> ELSE TryAlts(s, p, k, Alts(k, s, p))
TryAlts(s, p, k, alts) ==
    IF alts = <<>> THEN NoMatch
    ELSE LET r == MatchFrom(s, p + Head(alts), k + 1)
         IN IF r # NoMatch THEN <<Head(alts)>> \o r
            ELSE TryAlts(s, p, k, Tail(alts))

IsLeap(y) == (y % 4 = 0) /\ ((y % 100 # 0) \/ (y % 400 = 0))
DaysInMonth(y, m) ==
    IF m = 2 THEN (IF IsLeap(y) THEN 29 ELSE 28)
    ELSE IF m \in {4, 6, 9, 11} THEN 30 ELSE 31

\* [ok |-> FALSE] on ValueError, else the datetime
strptime(s) ==
    LET lens == MatchFrom(s, 1, 1)
    IN IF lens = NoMatch THEN [ok |-> FALSE]
       ELSE LET st(k) == 1 + (IF k = 1 THEN 0 ELSE
                              IF k = 2 THEN lens[1] ELSE
                              IF k = 3 THEN lens[1] + lens[2] ELSE
                              IF k = 4 THEN lens[1] + lens[2] + lens[3] ELSE
                              IF k = 5 THEN lens[1] + lens[2] + lens[3] + lens[4] ELSE
                              IF k = 6 THEN lens[1] + lens[2] + lens[3] + lens[4] + lens[5]
                              ELSE lens[1] + lens[2] + lens[3] + lens[4] + lens[5] + lens[6])
                fld(k) == ToInt(SubSeq(s, st(k), st(k) + lens[k] - 1))
                end == st(7) + lens[7] - 1
            IN IF end # Len(s) THEN [ok |-> FALSE]
               ELSE IF fld(1) < 1 THEN [ok |-> FALSE]
               ELSE IF fld(3) > DaysInMonth(fld(1), fld(2)) THEN [ok |-> FALSE]
               ELSE IF fld(7) > 59 THEN [ok |-> FALSE]
               ELSE [ok |-> TRUE, year |-> fld(1), month |-> fld(2), day |-> fld(3),
                     hour |-> fld(5), minute |-> fld(6), second |-> fld(7)]

(***************************************************************************)
(* Inputs of GRS.metadata: a directory part followed by tokens joined by   *)
(* '_'.  Tokens hold neither '_' nor '/'.                                   *)
(***************************************************************************)
TokS2A == <<"S", "2", "A">>   \* "S2A"
TokS2B == <<"S", "2", "B">>   \* "S2B"
TokLvl == <<"M", "S", "I", "L", "1", "C">>   \* "MSIL1C"
TokBase == <<"N", "0", "3", "0", "0">>   \* "N0300"
TokOrbit == <<"R", "1", "3", "8">>   \* "R138"
TokTile == <<"T", "2", "3", "K", "M", "Q">>   \* "T23KMQ"
TokDisc == <<"2", "0", "2", "1", "0", "5", "2", "1", "T", "1", "6", "3", "3", "5", "3">>   \* "20210521T163353"
TokCC == <<"c", "c", "0", "2", "0">>   \* "cc020"
TokV15 == <<"v", "1", "5">>   \* "v15"
TokV15nc == <<"v", "1", "5", ".", "n", "c">>   \* "v15.nc"
TokV14nc == <<"v", "1", "4", ".", "n", "c">>   \* "v14.nc"
TokExtra == <<"x">>   \* "x"
DirNone == <<>>   \* ""
DirPlain == <<"/", "r", "o", "o", "t", "/", "2", "3", "K", "M", "Q", "/">>   \* "/root/23KMQ/"
DirUnder == <<"/", "a", "_", "b", "/", "c", "_", "d", "/">>   \* "/a_b/c_d/"
DateRef == <<"2", "0", "2", "1", "0", "5", "2", "1", "T", "1", "3", "1", "2", "4", "1">>   \* "20210521T131241"
DateS2B == <<"2", "0", "2", "0", "0", "1", "0", "1", "T", "0", "9", "0", "0", "0", "0">>   \* "20200101T090000"
DateYear5 == <<"0", "0", "0", "5", "0", "5", "2", "1", "T", "1", "3", "1", "2", "4", "1">>   \* "00050521T131241"
DateLeap == <<"2", "0", "2", "0", "0", "2", "2", "9", "T", "0", "0", "0", "0", "0", "0">>   \* "20200229T000000"
DateMax == <<"9", "9", "9", "9", "1", "2", "3", "1", "T", "2", "3", "5", "9", "5", "9">>   \* "99991231T235959"
DateNoTime == <<"2", "0", "2", "1", "0", "5", "2", "1">>   \* "20210521"
DateShortMonth == <<"2", "0", "2", "1", "5", "2", "1", "T", "1", "3", "1", "2", "4", "1">>   \* "2021521T131241"
DateShortTime == <<"2", "0", "2", "1", "0", "5", "2", "1", "T", "1", "3", "1", "2">>   \* "20210521T1312"
DateLowerT == <<"2", "0", "2", "1", "0", "5", "2", "1", "t", "1", "3", "1", "2", "4", "1">>   \* "20210521t131241"
DateBlankDay == <<"2", "0", "2", "1", "5", " ", "5", "T", "1", "3", "1", "2", "4", "1">>   \* "20215 5T131241"
DateFeb30 == <<"2", "0", "2", "1", "0", "2", "3", "0", "T", "0", "0", "0", "0", "0", "0">>   \* "20210230T000000"
DateSec60 == <<"2", "0", "2", "1", "0", "5", "2", "1", "T", "1", "3", "1", "2", "6", "0">>   \* "20210521T131260"
DateTrail == <<"2", "0", "2", "1", "0", "5", "2", "1", "T", "1", "3", "1", "2", "4", "1", "x">>   \* "20210521T131241x"
DateYear0 == <<"0", "0", "0", "0", "0", "5", "2", "1", "T", "1", "3", "1", "2", "4", "1">>   \* "00000521T131241"
DateMonth13 == <<"2", "0", "2", "1", "1", "3", "0", "1", "T", "0", "0", "0", "0", "0", "0">>   \* "20211301T000000"

Dirs == {DirNone, DirPlain, DirUnder}
Missions == {TokS2A, TokS2B}
Versions == {TokV15, TokV15nc, TokV14nc}
DateToks == {DateRef, DateS2B, DateYear5, DateLeap, DateMax, DateNoTime, DateShortMonth,
             DateShortTime, DateLowerT, DateBlankDay, DateFeb30, DateSec60, DateTrail,
             DateYear0, DateMonth13}

\* the token list of a file name with n tokens
TokenList(n, mission, date, ver) ==
    [k \in 1..n |->
        CASE k = 1 -> mission [] k = 2 -> TokLvl [] k = 3 -> date [] k = 4 -> TokBase
          [] k = 5 -> TokOrbit [] k = 6 -> TokTile [] k = 7 -> TokDisc [] k = 8 -> TokCC
          [] k = 9 -> ver [] OTHER -> TokExtra]

RECURSIVE Join(_)
Join(toks) ==
    IF toks = <<>> THEN <<>>
    ELSE IF Len(toks) = 1 THEN toks[1]
    ELSE toks[1] \o <<"_">> \o Join(Tail(toks))

(***************************************************************************)
(* GRS.metadata                                                            *)
(***************************************************************************)
\* number of names on the left of the unpacking assignment
NumNames == 9

\* the tuple unpacking of basefile.split('_') succeeds
UnpackOk(parts) == Len(parts) = NumNames

\* the error raised for an input, "none" when the function returns:
\* the unpacking is evaluated before strptime
MetadataErrorDateFirst(parts) ==
    IF Len(parts) >= 3 /\ ~strptime(parts[3]).ok THEN "date"
    ELSE IF ~UnpackOk(parts) THEN "format"
    ELSE "none"
MetadataError(parts) ==
    IF ~UnpackOk(parts) THEN "format"
    ELSE IF ~strptime(parts[3]).ok THEN "date"
    ELSE "none"

\* the dict built by lines 167-181
MetadataRecord(entry, basefile, parts) ==
    LET file_event_date == strptime(parts[3])
    IN [input_file |-> entry,
        basename |-> basefile,
        mission |-> parts[1],
        prod_lvl |-> parts[2],
        str_date |-> parts[3],
        pydate |-> file_event_date,
        year |-> Fmt02d(file_event_date.year),
        month |-> Fmt02d(file_event_date.month),
        day |-> Fmt02d(file_event_date.day),
        baseline_algo_version |-> parts[4],
        relative_orbit |-> parts[5],
        tile |-> parts[6],
        product_discriminator |-> parts[7],
        cloud_cover |-> parts[8],
        grs_ver |-> parts[9]]

GRS_metadata ==
    /\ mpc = "call"
    /\ LET basefile == basename(grs_file_entry)
           parts == split(basefile)
           e == MetadataError(parts)
       IN /\ merr' = e
          /\ mpc' = IF e = "none" THEN "returned" ELSE "raised"
          /\ metadata' = IF e = "none"
                         THEN {MetadataRecord(grs_file_entry, basefile, parts)}
                         ELSE {}
    /\ UNCHANGED <<in_dir, in_tokens, grs_file_entry, rvars, avars>>

(***************************************************************************)
(* Raster.reproj                                                           *)
(***************************************************************************)
Drivers == {"GTiff"}
DTypes == {"float32", "uint16"}
NoDatas == {-1, 0}
CRSs == {"EPSG:32723", "EPSG:4326"}
TargetCRSs == {"EPSG:4326", "EPSG:3857"}

\* the profiles a source raster can have (the keys of rasterio's src.meta)
Metas ==
    [driver : Drivers, dtype : DTypes, nodata : NoDatas, width : 1..MaxDim,
     height : 1..MaxDim, count : 1..MaxBands, crs : CRSs, transform : {"T_src"}]

\* the results calculate_default_transform can give for a source of size w x h
DefaultTransforms(w, h) ==
    [transform : {"T_dst"}, width : {w, w + 1}, height : {h, h + 1}]

\* src.meta.copy()
MetaCopy(m) == m

\* kwargs.update({'crs': ..., 'transform': ..., 'width': ..., 'height': ...})
KwargsUpdateCount(m, crs, t) ==
    [m EXCEPT !.crs = crs, !.transform = t.transform, !.width = t.width,
              !.height = t.height, !.count = 1]
KwargsUpdate(m, crs, t) ==
    [m EXCEPT !.crs = crs, !.transform = t.transform, !.width = t.width,
              !.height = t.height]

\* range(1, src.count + 1)
BandRange(count) == 1..count

\* destination=rasterio.band(dst, i)
DstBandFirst(k) == 1
DstBand(k) == k

\* leaving a with block closes its handle, whether or not an exception is in flight
WithExitClosesOnSuccess(e) == e = "none"
WithExitCloses(e) == TRUE

\* the print statement after the with blocks is reached only without an exception
PrintAlways(e) == TRUE
PrintReached(e) == e = "none"

TheMeta(h) == CHOOSE m \in h : TRUE

\* line 82: rasterio.open(in_raster)
Reproj_OpenSrc ==
    /\ rpc = "call"
    /\ IF in_raster.exists
       THEN /\ src' = "open"
            /\ src_meta' = {in_raster.meta}
            /\ rpc' = "calc"
            /\ exc' = exc
       ELSE /\ exc' = "open_src"
            /\ rpc' = "raised"
            /\ UNCHANGED <<src, src_meta>>
    /\ UNCHANGED <<in_raster, target_crs, dst, dst_meta, calc, kwargs, i, band_log,
                   failed_band, close_log, printed, mvars, avars>>

\* lines 85-86: calculate_default_transform succeeds
Reproj_CalcTransform ==
    /\ rpc = "calc"
    /\ \E t \in DefaultTransforms(TheMeta(src_meta).width, TheMeta(src_meta).height) :
          calc' = {t}
    /\ rpc' = "kwargs"
    /\ UNCHANGED <<in_raster, target_crs, src, src_meta, dst, dst_meta, kwargs, i,
                   band_log, failed_band, exc, close_log, printed, mvars, avars>>

\* lines 85-86: calculate_default_transform raises
Reproj_CalcTransformFails ==
    /\ rpc = "calc"
    /\ exc' = "transform"
    /\ rpc' = "exit_src"
    /\ UNCHANGED <<in_raster, target_crs, src, src_meta, dst, dst_meta, calc, kwargs, i,
                   band_log, failed_band, close_log, printed, mvars, avars>>

\* lines 89-95
Reproj_BuildKwargs ==
    /\ rpc = "kwargs"
    /\ kwargs' = {KwargsUpdate(MetaCopy(TheMeta(src_meta)), target_crs, TheMeta(calc))}
    /\ rpc' = "open_dst"
    /\ UNCHANGED <<in_raster, target_crs, src, src_meta, dst, dst_meta, calc, i,
                   band_log, failed_band, exc, close_log, printed, mvars, avars>>

\* line 98: rasterio.open(out_raster, 'w', **kwargs) succeeds; the loop starts
Reproj_OpenDst ==
    /\ rpc = "open_dst"
    /\ dst' = "open"
    /\ dst_meta' = kwargs
    /\ i' = 1
    /\ rpc' = "loop"
    /\ UNCHANGED <<in_raster, target_crs, src, src_meta, calc, kwargs, band_log,
                   failed_band, exc, close_log, printed, mvars, avars>>

\* line 98: rasterio.open(out_raster, 'w', **kwargs) raises
Reproj_OpenDstFails ==
    /\ rpc = "open_dst"
    /\ exc' = "open_dst"
    /\ rpc' = "exit_src"
    /\ UNCHANGED <<in_raster, target_crs, src, src_meta, dst, dst_meta, calc, kwargs, i,
                   band_log, failed_band, close_log, printed, mvars, avars>>

\* lines 101-109: one iteration, reproject succeeds
Reproj_Band ==
    /\ rpc = "loop"
    /\ i \in BandRange(TheMeta(src_meta).count)
    /\ band_log' = Append(band_log, <<i, DstBand(i)>>)
    /\ i' = i + 1
    /\ UNCHANGED <<in_raster, target_crs, rpc, src, src_meta, dst, dst_meta, calc, kwargs,
                   failed_band, exc, close_log, printed, mvars, avars>>

\* lines 101-109: one iteration, reproject raises
Reproj_BandFails ==
    /\ rpc = "loop"
    /\ i \in BandRange(TheMeta(src_meta).count)
    /\ failed_band' = i
    /\ exc' = "reproject"
    /\ rpc' = "exit_dst"
    /\ UNCHANGED <<in_raster, target_crs, src, src_meta, dst, dst_meta, calc, kwargs, i,
                   band_log, close_log, printed, mvars, avars>>

\* line 101: the range is exhausted
Reproj_LoopDone ==
    /\ rpc = "loop"
    /\ i \notin BandRange(TheMeta(src_meta).count)
    /\ rpc' = "exit_dst"
    /\ UNCHANGED <<in_raster, target_crs, src, src_meta, dst, dst_meta, calc, kwargs, i,
                   band_log, failed_band, exc, close_log, printed, mvars, avars>>

\* line 98: leaving the inner with block
Reproj_ExitDst ==
    /\ rpc = "exit_dst"
    /\ IF WithExitCloses(exc)
       THEN dst' = "closed" /\ close_log' = Append(close_log, "dst")
       ELSE UNCHANGED <<dst, close_log>>
    /\ rpc' = "exit_src"
    /\ UNCHANGED <<in_raster, target_crs, src, src_meta, dst_meta, calc, kwargs, i,
                   band_log, failed_band, exc, printed, mvars, avars>>

\* line 82: leaving the outer with block
Reproj_ExitSrc ==
    /\ rpc = "exit_src"
    /\ IF WithExitCloses(exc)
       THEN src' = "closed" /\ close_log' = Append(close_log, "src")
       ELSE UNCHANGED <<src, close_log>>
    /\ rpc' = IF PrintReached(exc) THEN "print" ELSE "raised"
    /\ UNCHANGED <<in_raster, target_crs, src_meta, dst, dst_meta, calc, kwargs, i,
                   band_log, failed_band, exc, printed, mvars, avars>>

\* lines 110-111
Reproj_Print ==
    /\ rpc = "print"
    /\ printed' = TRUE
    /\ rpc' = IF exc = "none" THEN "returned" ELSE "raised"
    /\ UNCHANGED <<in_raster, target_crs, src, src_meta, dst, dst_meta, calc, kwargs, i,
                   band_log, failed_band, exc, close_log, mvars, avars>>

(***************************************************************************)
(* Raster.array2tiff                                                       *)
(***************************************************************************)
RECURSIVE SeqsUpTo(_, _)
SeqsUpTo(S, n) ==
    IF n = 0 THEN {<<>>}
    ELSE LET shorter == SeqsUpTo(S, n - 1)
         IN shorter \cup {Append(q, x) : q \in {r \in shorter : Len(r) = n - 1}, x \in S}

\* ndarray shapes of one, two and three dimensions
Shapes == SeqsUpTo(1..MaxDim, 3) \ {<<>>}
ANoDatas == {-1, 0, 9999}

EmptyFile == [xsize |-> 0, ysize |-> 0, written |-> FALSE, nodata |-> {},
              geo |-> FALSE, proj |-> FALSE]

\* lines 47-52: unpack the shape and create the dataset
A2T_Create ==
    /\ apc = "call"
    /\ IF Len(a_shape) # 2
       THEN /\ aerr' = "shape"
            /\ apc' = "raised"
            /\ UNCHANGED <<outdata, a_file>>
       ELSE /\ outdata' = "open"
            /\ a_file' = [EmptyFile EXCEPT !.xsize = a_shape[2], !.ysize = a_shape[1]]
            /\ apc' = "write"
            /\ aerr' = aerr
    /\ UNCHANGED <<a_shape, a_nodata, mvars, rvars>>

\* line 52: the driver cannot create the file, no dataset exists
A2T_CreateFails ==
    /\ apc = "call"
    /\ Len(a_shape) = 2
    /\ aerr' = "create"
    /\ apc' = "raised"
    /\ UNCHANGED <<a_shape, a_nodata, outdata, a_file, mvars, rvars>>

\* lines 54, 56, 58, 60: the four steps between creation and release
StepAfter(pc) ==
    CASE pc = "write" -> "nodata" [] pc = "nodata" -> "geo" [] pc = "geo" -> "proj"
      [] OTHER -> "release"

A2T_Step ==
    /\ apc \in {"write", "nodata", "geo", "proj"}
    /\ a_file' = CASE apc = "write" -> [a_file EXCEPT !.written = TRUE]
                   [] apc = "nodata" -> [a_file EXCEPT !.nodata = {a_nodata}]
                   [] apc = "geo" -> [a_file EXCEPT !.geo = TRUE]
                   [] OTHER -> [a_file EXCEPT !.proj = TRUE]
    /\ apc' = StepAfter(apc)
    /\ UNCHANGED <<a_shape, a_nodata, outdata, aerr, mvars, rvars>>

\* one of the four steps raises: the exception leaves the function at once,
\* lines 64-65 are not executed and the local outdata still holds the dataset
A2T_StepFails ==
    /\ apc \in {"write", "nodata", "geo", "proj"}
    /\ aerr' = apc
    /\ apc' = "raised"
    /\ UNCHANGED <<a_shape, a_nodata, outdata, a_file, mvars, rvars>>

\* lines 64-66: outdata = None
A2T_Release ==
    /\ apc = "release"
    /\ outdata' = "released"
    /\ apc' = "returned"
    /\ UNCHANGED <<a_shape, a_nodata, a_file, aerr, mvars, rvars>>

(***************************************************************************)
(* Specifications                                                          *)
(***************************************************************************)
MetaIdle ==
    /\ in_dir = <<>> /\ in_tokens = <<>> /\ grs_file_entry = <<>>
    /\ mpc = "idle" /\ metadata = {} /\ merr = "none"

ReprojStart ==
    /\ src = "never" /\ src_meta = {} /\ dst = "never" /\ dst_meta = {}
    /\ calc = {} /\ kwargs = {} /\ i = 0 /\ band_log = <<>> /\ failed_band = 0
    /\ exc = "none" /\ close_log = <<>> /\ printed = FALSE

ReprojIdle ==
    /\ in_raster = [exists |-> FALSE] /\ target_crs = "EPSG:4326" /\ rpc = "idle"
    /\ ReprojStart

A2TIdle ==
    /\ a_shape = <<>> /\ a_nodata = -1 /\ apc = "idle" /\ outdata = "none"
    /\ a_file = EmptyFile /\ aerr = "none"

InitMeta ==
    /\ \E d \in Dirs, n \in 0..MaxTokens, m \in Missions, t \in DateToks, v \in Versions :
          /\ in_dir = d
          /\ in_tokens = TokenList(n, m, t, v)
          /\ grs_file_entry = d \o Join(TokenList(n, m, t, v))
    /\ mpc = "call" /\ metadata = {} /\ merr = "none"
    /\ ReprojIdle /\ A2TIdle

InitReproj ==
    /\ in_raster \in {[exists |-> FALSE]} \cup {[exists |-> TRUE, meta |-> m] : m \in Metas}
    /\ target_crs \in TargetCRSs
    /\ rpc = "call"
    /\ ReprojStart
    /\ MetaIdle /\ A2TIdle

InitA2T ==
    /\ a_shape \in Shapes
    /\ a_nodata \in ANoDatas
    /\ apc = "call" /\ outdata = "none" /\ a_file = EmptyFile /\ aerr = "none"
    /\ MetaIdle /\ ReprojIdle

NextMeta == GRS_metadata

NextReproj ==
    \/ Reproj_OpenSrc
    \/ Reproj_CalcTransform
    \/ Reproj_CalcTransformFails
    \/ Reproj_BuildKwargs
    \/ Reproj_OpenDst
    \/ Reproj_OpenDstFails
    \/ Reproj_Band
    \/ Reproj_BandFails
    \/ Reproj_LoopDone
    \/ Reproj_ExitDst
    \/ Reproj_ExitSrc
    \/ Reproj_Print

NextA2T ==
    \/ A2T_Create
    \/ A2T_CreateFails
    \/ A2T_Step
    \/ A2T_StepFails
    \/ A2T_Release

SpecMeta == InitMeta /\ [][NextMeta]_vars
SpecReproj == InitReproj /\ [][NextReproj]_vars
SpecA2T == InitA2T /\ [][NextA2T]_vars

(***************************************************************************)
(* Properties                                                              *)
(***************************************************************************)
\* t is written exactly as YYYYMMDDTHHMMSS and names an existing instant
ValidStamp(t) ==
    /\ Len(t) = 15
    /\ \A k \in (1..8) \cup (10..15) : t[k] \in Digits
    /\ t[9] = "T"
    /\ ToInt(SubSeq(t, 1, 4)) >= 1
    /\ ToInt(SubSeq(t, 5, 6)) \in 1..12
    /\ ToInt(SubSeq(t, 7, 8)) \in 1..DaysInMonth(ToInt(SubSeq(t, 1, 4)), ToInt(SubSeq(t, 5, 6)))
    /\ ToInt(SubSeq(t, 10, 11)) \in 0..23
    /\ ToInt(SubSeq(t, 12, 13)) \in 0..59
    /\ ToInt(SubSeq(t, 14, 15)) \in 0..59

MetaDone == mpc \in {"returned", "raised"}

\* the part of a token before its first '.'
StripExt(t) ==
    LET dots == {k \in 1..Len(t) : t[k] = "."}
    IN IF dots = {} THEN t
       ELSE SubSeq(t, 1, (CHOOSE k \in dots : \A j \in dots : k <= j) - 1)

\* C1: for a path whose basename has exactly nine '_'-separated tokens and a
\* valid YYYYMMDDTHHMMSS third token, GRS.metadata returns a record whose nine
\* positional fields are the nine tokens in order, whose basename is the last
\* path component and whose input_file is the path as given, whatever the
\* directory part (underscores included).
C1_FieldsEqualTokens ==
    (MetaDone /\ Len(in_tokens) = 9 /\ ValidStamp(in_tokens[3])) =>
        /\ mpc = "returned"
        /\ Cardinality(metadata) = 1
        /\ \A r \in metadata :
              /\ r.mission = in_tokens[1]
              /\ r.prod_lvl = in_tokens[2]
              /\ r.str_date = in_tokens[3]
              /\ r.baseline_algo_version = in_tokens[4]
              /\ r.relative_orbit = in_tokens[5]
              /\ r.tile = in_tokens[6]
              /\ r.product_discriminator = in_tokens[7]
              /\ r.cloud_cover = in_tokens[8]
              /\ r.grs_ver = in_tokens[9]
              /\ r.basename = Join(in_tokens)
              /\ r.input_file = in_dir \o Join(in_tokens)

C1_Witness ==
    /\ mpc = "returned"
    /\ in_dir = DirUnder
    /\ Len(in_tokens) = 9
    /\ in_tokens[3] = DateRef
    /\ \E r \in metadata : r.tile = TokTile /\ r.basename = Join(in_tokens)

\* C2: for a file name that carries an extension, grs_ver is the version
\* token without the extension (v15 for ..._v15.nc).
C2_VersionWithoutExtension ==
    (mpc = "returned" /\ Len(in_tokens) = 9 /\ in_tokens[9] # StripExt(in_tokens[9])) =>
        \A r \in metadata : r.grs_ver = StripExt(in_tokens[9])

\* C3 as stated: year, month and day are each a two-character zero-padded
\* string equal to the component of pydate.
C3_TwoDigitYearMonthDay ==
    mpc = "returned" =>
        \A r \in metadata :
            /\ Len(r.year) = 2 /\ Len(r.month) = 2 /\ Len(r.day) = 2
            /\ ToInt(r.year) = r.pydate.year
            /\ ToInt(r.month) = r.pydate.month
            /\ ToInt(r.day) = r.pydate.day

AllDigits(t) == \A k \in 1..Len(t) : t[k] \in Digits

\* C3 (amended): month and day are two-character zero-padded digit strings;
\* year is the decimal year zero-padded to at least two characters (four
\* characters for a year from 1000 on, no padding beyond two); each equals
\* the corresponding component of pydate.
C3_PaddedYearMonthDay ==
    mpc = "returned" =>
        \A r \in metadata :
            /\ AllDigits(r.year) /\ AllDigits(r.month) /\ AllDigits(r.day)
            /\ Len(r.month) = 2 /\ Len(r.day) = 2
            /\ Len(r.year) >= 2
            /\ (Len(r.year) > 2 => r.year[1] # "0")
            /\ (r.pydate.year >= 1000 => Len(r.year) = 4)
            /\ ToInt(r.year) = r.pydate.year
            /\ ToInt(r.month) = r.pydate.month
            /\ ToInt(r.day) = r.pydate.day

C3_Witness ==
    /\ mpc = "returned"
    /\ in_tokens[3] = DateYear5
    /\ \E r \in metadata : r.year = <<"0", "5">> /\ r.month = <<"0", "5">> /\ r.day = <<"2", "1">>

\* C4: a basename with fewer or more than nine tokens makes GRS.metadata fail
\* with the format error and return no record, also when the date token is bad
\* (the token count is checked before the date is parsed).
C4_FormatErrorFirst ==
    (MetaDone /\ Len(in_tokens) # 9) =>
        /\ mpc = "raised"
        /\ merr = "format"
        /\ metadata = {}

C4_Witness ==
    /\ mpc = "raised"
    /\ merr = "format"
    /\ Len(in_tokens) = 10
    /\ in_tokens[3] = DateNoTime

\* C5: a nine-token basename whose third token is not a valid YYYYMMDDTHHMMSS
\* string makes GRS.metadata fail with the date-parse error and return no record.
C5_InvalidDateRejected ==
    (MetaDone /\ Len(in_tokens) = 9 /\ ~ValidStamp(in_tokens[3])) =>
        /\ mpc = "raised"
        /\ merr = "date"
        /\ metadata = {}

\* C6: the band loop reprojects bands 1..N once each in ascending order, band k
\* of the source into band k of the destination, and after a successful reproj
\* the destination has the N bands of the source.
C6_BandsInOrder ==
    /\ \A k \in 1..Len(band_log) : band_log[k] = <<k, k>>
    /\ rpc = "returned" =>
          /\ Len(band_log) = in_raster.meta.count
          /\ \A m \in dst_meta : m.count = in_raster.meta.count
          /\ dst_meta # {}

C6_Witness ==
    /\ rpc = "returned"
    /\ Len(band_log) >= 2
    /\ band_log[2] = <<2, 2>>

\* C7: on every exit of Raster.reproj every handle that was opened is closed,
\* and the destination is closed before the source.
C7_HandlesClosedOnExit ==
    rpc \in {"returned", "raised"} =>
        /\ src # "open"
        /\ dst # "open"
        /\ (src = "never" => dst = "never" /\ close_log = <<>>)
        /\ (src = "closed" /\ dst = "never" => close_log = <<"src">>)
        /\ (dst = "closed" => close_log = <<"dst", "src">>)

C7_Witness ==
    /\ rpc = "raised"
    /\ exc = "reproject"
    /\ close_log = <<"dst", "src">>
    /\ src = "closed" /\ dst = "closed"

\* C8: Raster.array2tiff has released the dataset handle on every exit,
\* also when a step after the creation of the dataset fails.
C8_ReleasedOnEveryExit ==
    apc \in {"returned", "raised"} => outdata # "open"

\* C9: when reprojecting band k fails, no band above k is reprojected, the
\* failure reaches the caller and 'Done' is not printed; 'Done' is printed only
\* after every band was reprojected and both handles were closed.
C9_BandFailureAborts ==
    /\ failed_band # 0 =>
          /\ \A k \in 1..Len(band_log) : band_log[k][1] < failed_band
          /\ ~printed
          /\ rpc # "returned"
          /\ exc = "reproject"
    /\ rpc = "raised" => exc # "none" /\ ~printed
    /\ printed =>
          /\ Len(band_log) = in_raster.meta.count
          /\ src = "closed" /\ dst = "closed"
          /\ exc = "none"

C9_Witness ==
    /\ rpc = "raised"
    /\ failed_band = 2
    /\ in_raster.meta.count > 2
    /\ Len(band_log) = 1
    /\ ~printed

\* C10: the metadata the destination is created with takes crs, transform,
\* width and height from the target CRS and the computed default transform;
\* every other field is that of the source, and the source's metadata is not
\* modified.
C10_KwargsFrame ==
    /\ \A k \in kwargs :
          /\ k.crs = target_crs
          /\ \A t \in calc :
                k.transform = t.transform /\ k.width = t.width /\ k.height = t.height
          /\ calc # {}
          /\ k.count = in_raster.meta.count
          /\ k.dtype = in_raster.meta.dtype
          /\ k.nodata = in_raster.meta.nodata
          /\ k.driver = in_raster.meta.driver
          /\ DOMAIN k = DOMAIN in_raster.meta
          /\ src_meta = {in_raster.meta}
    /\ dst_meta # {} => dst_meta = kwargs

C10_Witness ==
    /\ dst = "open"
    /\ \E k \in dst_meta :
          /\ k.crs # in_raster.meta.crs
          /\ k.width # in_raster.meta.width
          /\ k.transform # in_raster.meta.transform
          /\ k.count = 2
          /\ k.dtype = "uint16"

====
